---- MODULE Spec2Model ----
(***************************************************************************)
(* KeyPairSigner (packages/signers/src/key_pair_signer.ts) and the NEP-413 *)
(* payload hasher getPayloadHashForNEP413.                                 *)
(*                                                                         *)
(* Bytes, strings and digests are sequences of integers.  A byte is in     *)
(* 0..255; sha256 and the key pair's sign are symbolic injective images    *)
(* whose first element is a negative marker, so that a digest is never     *)
(* equal to a byte string and a signature is never equal to a digest.      *)
(* The async methods of the signer contain no await: each body runs to     *)
(* completion on the single JavaScript thread, so one call is one action.  *)
(***************************************************************************)
EXTENDS Integers, Sequences, FiniteSets, TLC

VARIABLES key, outcome

vars == <<key, outcome>>

-----------------------------------------------------------------------------
(* Bounds of the input domains *)

MaxStrLen == 1

Alphabet == {97, 98}

RECURSIVE StringsUpTo(_)
StringsUpTo(n) ==
    IF n = 0 THEN {<<>>}
    ELSE LET shorter == StringsUpTo(n - 1)
         IN shorter \cup {Append(s, c) : s \in {t \in shorter : Len(t) = n - 1}, c \in Alphabet}

Strings == StringsUpTo(MaxStrLen)

AccountIds == {<<>>, <<97>>}

-----------------------------------------------------------------------------
(* Byte helpers *)

RECURSIVE Zeros(_)
Zeros(n) == IF n = 0 THEN <<>> ELSE <<0>> \o Zeros(n - 1)

\* Uint8Array.prototype.set(src, offset): copy src into arr starting at offset
TypedArraySet(arr, src, offset) ==
    [i \in 1..Len(arr) |->
        IF i > offset /\ i <= offset + Len(src) THEN src[i - offset] ELSE arr[i]]

\* A u32 is kept as two 16-bit halves, since 2^31 + 413 exceeds the checker's integers
U32(n) == [hi |-> n \div 65536, lo |-> n % 65536]

\* borsh u32: four bytes, little-endian
encode_u32(v) == <<v.lo % 256, v.lo \div 256, v.hi % 256, v.hi \div 256>>

\* borsh u64 of a small value: eight bytes, little-endian
encode_u64(n) == encode_u32(U32(n)) \o Zeros(4)

\* borsh string: u32 length, then the UTF-8 bytes
encode_string(s) == encode_u32(U32(Len(s))) \o s

\* borsh option: 0 when absent, 1 followed by the value when present
encode_option_string(o) ==
    IF Len(o) = 0 THEN <<0>> ELSE <<1>> \o encode_string(o[1])

-----------------------------------------------------------------------------
(* @noble/hashes sha256, as a collision-free symbolic hash *)

sha256(bytes) == <<-1>> \o bytes

-----------------------------------------------------------------------------
(* @near-js/crypto: KeyType, PublicKey, KeyPair *)

KeyTypeED25519 == 0
KeyTypeSECP256K1 == 1

\* "ed25519" and "secp256k1" as character codes
key_type_to_str(keyType) ==
    IF keyType = KeyTypeED25519
    THEN <<101, 100, 50, 53, 53, 49, 57>>
    ELSE <<115, 101, 99, 112, 50, 53, 54, 107, 49>>

\* 123456789ABCDEFGHJKLMNPQRSTUVWXYZabcdefghijkmnopqrstuvwxyz
Base58Alphabet ==
    <<49, 50, 51, 52, 53, 54, 55, 56, 57,
      65, 66, 67, 68, 69, 70, 71, 72, 74, 75, 76, 77, 78,
      80, 81, 82, 83, 84, 85, 86, 87, 88, 89, 90,
      97, 98, 99, 100, 101, 102, 103, 104, 105, 106, 107,
      109, 110, 111, 112, 113, 114, 115, 116, 117, 118, 119, 120, 121, 122>>

RECURSIVE LeadingZeros(_)
LeadingZeros(bytes) ==
    IF Len(bytes) = 0 \/ bytes[1] # 0 THEN 0 ELSE 1 + LeadingZeros(Tail(bytes))

RECURSIVE BigEndianValue(_)
BigEndianValue(bytes) ==
    IF Len(bytes) = 0 THEN 0
    ELSE 256 * BigEndianValue(SubSeq(bytes, 1, Len(bytes) - 1)) + bytes[Len(bytes)]

RECURSIVE Base58Digits(_)
Base58Digits(n) ==
    IF n = 0 THEN <<>>
    ELSE Append(Base58Digits(n \div 58), Base58Alphabet[(n % 58) + 1])

RECURSIVE Repeat(_, _)
Repeat(c, n) == IF n = 0 THEN <<>> ELSE <<c>> \o Repeat(c, n - 1)

\* base58: one '1' per leading zero byte, then the digits of the big-endian value
baseEncode(bytes) ==
    Repeat(Base58Alphabet[1], LeadingZeros(bytes)) \o Base58Digits(BigEndianValue(bytes))

\* PublicKey is an enum object holding exactly one of ed25519Key / secp256k1Key;
\* oid distinguishes two objects that hold the same key.
PublicKeyKeyType(publicKey) ==
    IF publicKey.variant = "ed25519Key" THEN KeyTypeED25519 ELSE KeyTypeSECP256K1

PublicKeyToString(publicKey) ==
    key_type_to_str(PublicKeyKeyType(publicKey)) \o <<58>> \o baseEncode(publicKey.data)

KeyPairGetPublicKey(keyPair) == keyPair.publicKey

\* KeyPair.sign(message) -> { signature, publicKey }; deterministic per key
KeyPairSign(keyPair, message) ==
    [signature |-> <<-2, keyPair.secretKey>> \o message,
     publicKey |-> keyPair.publicKey]

KeyDatas == {<<0, 200>>, <<200>>}

Variants == {"ed25519Key", "secp256k1Key"}

PublicKeys == [variant : Variants, data : KeyDatas, oid : {0, 1}]

\* the key pairs a signer can be constructed with; the secret determines the public key
KeyPairs ==
    {[secretKey |-> 10 * PublicKeyKeyType([variant |-> v, data |-> d]) + Len(d),
      publicKey |-> [variant |-> v, data |-> d, oid |-> 0]] : v \in Variants, d \in KeyDatas}

-----------------------------------------------------------------------------
(* @near-js/transactions: canonical (borsh) encoders *)

\* borsh enum PublicKey: variant index byte, then the raw key bytes
encode_public_key(publicKey) == <<PublicKeyKeyType(publicKey)>> \o publicKey.data

\* Transaction: signerId, publicKey, nonce, receiverId, blockHash, actions
encodeTransaction(transaction) ==
    encode_string(transaction.signerId)
        \o encode_public_key(transaction.publicKey)
        \o encode_u64(transaction.nonce)
        \o encode_string(transaction.receiverId)
        \o transaction.blockHash
        \o encode_u32(U32(Len(transaction.actions)))

\* NEP-366 prefix 2^30 + 366, then
\* DelegateAction: senderId, receiverId, actions, nonce, maxBlockHeight, publicKey
DelegateActionPrefix == [hi |-> 16384, lo |-> 366]

encodeDelegateAction(delegateAction) ==
    encode_u32(DelegateActionPrefix)
        \o encode_string(delegateAction.senderId)
        \o encode_string(delegateAction.receiverId)
        \o encode_u32(U32(Len(delegateAction.actions)))
        \o encode_u64(delegateAction.nonce)
        \o encode_u64(delegateAction.maxBlockHeight)
        \o encode_public_key(delegateAction.publicKey)

Transactions ==
    [signerId : AccountIds, publicKey : PublicKeys, nonce : {1},
     receiverId : {<<98>>}, blockHash : {Zeros(32)}, actions : {<<>>}]

DelegateActions ==
    [senderId : AccountIds, receiverId : {<<98>>}, actions : {<<>>}, nonce : {1},
     maxBlockHeight : {2}, publicKey : PublicKeys]

-----------------------------------------------------------------------------
(* Outcome of a call: a returned value or a thrown error, with the           *)
(* collaborators the call invoked, in order.                                 *)

Return(value, invoked) == [status |-> "return", value |-> value, invoked |-> invoked]

Throw(message, invoked) == [status |-> "throw", error |-> message, invoked |-> invoked]

KeyMismatchMessage == "The public key doesn't match the signer's key"

InvalidNonceMessage == "Nonce must be exactly 32 bytes long"

-----------------------------------------------------------------------------
(* KeyPairSigner *)

getPublicKey(k) == Return(KeyPairGetPublicKey(k), <<"getPublicKey">>)

signMessagePayload(k, bytes) ==
    LET signature == KeyPairSign(k, bytes).signature
    IN  Return(signature, <<"sign">>)

\* signTransaction with the key check reduced to the raw key bytes
signTransaction_dataOnlyCheck(k, transaction) ==
    LET pk == KeyPairGetPublicKey(k)
    IN  IF baseEncode(transaction.publicKey.data) # baseEncode(pk.data)
        THEN Throw(KeyMismatchMessage, <<"getPublicKey", "toString", "toString">>)
        ELSE LET message == encodeTransaction(transaction)
                 hash == sha256(message)
                 signature == KeyPairSign(k, hash).signature
                 signedTx ==
                     [transaction |-> transaction,
                      signature |->
                          [keyType |-> IF transaction.publicKey.variant = "ed25519Key"
                                       THEN KeyTypeED25519
                                       ELSE KeyTypeSECP256K1,
                           data |-> signature]]
             IN  Return(<<hash, signedTx>>,
                        <<"getPublicKey", "toString", "toString",
                          "encodeTransaction", "sha256", "sign">>)

\* signTransaction signing the encoded bytes instead of their hash
signTransaction_signsMessage(k, transaction) ==
    LET pk == KeyPairGetPublicKey(k)
    IN  IF PublicKeyToString(transaction.publicKey) # PublicKeyToString(pk)
        THEN Throw(KeyMismatchMessage, <<"getPublicKey", "toString", "toString">>)
        ELSE LET message == encodeTransaction(transaction)
                 hash == sha256(message)
                 signature == KeyPairSign(k, message).signature
                 signedTx ==
                     [transaction |-> transaction,
                      signature |->
                          [keyType |-> IF transaction.publicKey.variant = "ed25519Key"
                                       THEN KeyTypeED25519
                                       ELSE KeyTypeSECP256K1,
                           data |-> signature]]
             IN  Return(<<hash, signedTx>>,
                        <<"getPublicKey", "toString", "toString",
                          "encodeTransaction", "sha256", "sign">>)

\* signTransaction with the ternary's branches swapped
signTransaction_swappedKeyType(k, transaction) ==
    LET pk == KeyPairGetPublicKey(k)
    IN  IF PublicKeyToString(transaction.publicKey) # PublicKeyToString(pk)
        THEN Throw(KeyMismatchMessage, <<"getPublicKey", "toString", "toString">>)
        ELSE LET message == encodeTransaction(transaction)
                 hash == sha256(message)
                 signature == KeyPairSign(k, hash).signature
                 signedTx ==
                     [transaction |-> transaction,
                      signature |->
                          [keyType |-> IF transaction.publicKey.variant = "ed25519Key"
                                       THEN KeyTypeSECP256K1
                                       ELSE KeyTypeED25519,
                           data |-> signature]]
             IN  Return(<<hash, signedTx>>,
                        <<"getPublicKey", "toString", "toString",
                          "encodeTransaction", "sha256", "sign">>)

signTransaction(k, transaction) ==
    LET pk == KeyPairGetPublicKey(k)
    IN  IF PublicKeyToString(transaction.publicKey) # PublicKeyToString(pk)
        THEN Throw(KeyMismatchMessage, <<"getPublicKey", "toString", "toString">>)
        ELSE LET message == encodeTransaction(transaction)
                 hash == sha256(message)
                 signature == KeyPairSign(k, hash).signature
                 signedTx ==
                     [transaction |-> transaction,
                      signature |->
                          [keyType |-> IF transaction.publicKey.variant = "ed25519Key"
                                       THEN KeyTypeED25519
                                       ELSE KeyTypeSECP256K1,
                           data |-> signature]]
             IN  Return(<<hash, signedTx>>,
                        <<"getPublicKey", "toString", "toString",
                          "encodeTransaction", "sha256", "sign">>)

\* signDelegateAction with the key check placed after the signing
signDelegateAction_lateCheck(k, delegateAction) ==
    LET pk == KeyPairGetPublicKey(k)
        message == encodeDelegateAction(delegateAction)
        hash == sha256(message)
        signature == KeyPairSign(k, hash).signature
        signedDelegate ==
            [delegateAction |-> delegateAction,
             signature |-> [keyType |-> PublicKeyKeyType(pk), data |-> signature]]
    IN  IF PublicKeyToString(delegateAction.publicKey) # PublicKeyToString(pk)
        THEN Throw(KeyMismatchMessage,
                   <<"getPublicKey", "encodeDelegateAction", "sha256", "sign",
                     "toString", "toString">>)
        ELSE Return(<<hash, signedDelegate>>,
                    <<"getPublicKey", "encodeDelegateAction", "sha256", "sign",
                      "toString", "toString">>)

\* signDelegateAction signing the encoded bytes instead of their hash
signDelegateAction_signsMessage(k, delegateAction) ==
    LET pk == KeyPairGetPublicKey(k)
    IN  IF PublicKeyToString(delegateAction.publicKey) # PublicKeyToString(pk)
        THEN Throw(KeyMismatchMessage, <<"getPublicKey", "toString", "toString">>)
        ELSE LET message == encodeDelegateAction(delegateAction)
                 hash == sha256(message)
                 signature == KeyPairSign(k, message).signature
                 signedDelegate ==
                     [delegateAction |-> delegateAction,
                      signature |->
                          [keyType |-> PublicKeyKeyType(pk),
                           data |-> signature]]
             IN  Return(<<hash, signedDelegate>>,
                        <<"getPublicKey", "toString", "toString",
                          "encodeDelegateAction", "sha256", "sign">>)

\* signDelegateAction tagging every signature as ED25519
signDelegateAction_fixedKeyType(k, delegateAction) ==
    LET pk == KeyPairGetPublicKey(k)
    IN  IF PublicKeyToString(delegateAction.publicKey) # PublicKeyToString(pk)
        THEN Throw(KeyMismatchMessage, <<"getPublicKey", "toString", "toString">>)
        ELSE LET message == encodeDelegateAction(delegateAction)
                 hash == sha256(message)
                 signature == KeyPairSign(k, hash).signature
                 signedDelegate ==
                     [delegateAction |-> delegateAction,
                      signature |->
                          [keyType |-> KeyTypeED25519,
                           data |-> signature]]
             IN  Return(<<hash, signedDelegate>>,
                        <<"getPublicKey", "toString", "toString",
                          "encodeDelegateAction", "sha256", "sign">>)

signDelegateAction(k, delegateAction) ==
    LET pk == KeyPairGetPublicKey(k)
    IN  IF PublicKeyToString(delegateAction.publicKey) # PublicKeyToString(pk)
        THEN Throw(KeyMismatchMessage, <<"getPublicKey", "toString", "toString">>)
        ELSE LET message == encodeDelegateAction(delegateAction)
                 hash == sha256(message)
                 signature == KeyPairSign(k, hash).signature
                 signedDelegate ==
                     [delegateAction |-> delegateAction,
                      signature |->
                          [keyType |-> PublicKeyKeyType(pk),
                           data |-> signature]]
             IN  Return(<<hash, signedDelegate>>,
                        <<"getPublicKey", "toString", "toString",
                          "encodeDelegateAction", "sha256", "sign">>)

-----------------------------------------------------------------------------
(* NEP-413 payload hasher *)

\* struct { message: string, nonce: [u8; 32], recipient: string, callbackUrl: option<string> }
Nep413MessageSchema ==
    <<[field |-> "message", kind |-> "string"],
      [field |-> "nonce", kind |-> "array"],
      [field |-> "recipient", kind |-> "string"],
      [field |-> "callbackUrl", kind |-> "option"]>>

encode_value(kind, value) ==
    CASE kind = "string" -> encode_string(value)
      [] kind = "array" -> value
      [] kind = "option" -> encode_option_string(value)

\* borsh serialize of a struct: the fields' encodings in schema order
RECURSIVE serialize(_, _)
serialize(schema, value) ==
    IF Len(schema) = 0 THEN <<>>
    ELSE encode_value(schema[1].kind, value[schema[1].field])
             \o serialize(Tail(schema), value)

\* 2**31 + 413 == 2147484061
PREFIX == [hi |-> 32768, lo |-> 413]

\* getPayloadHashForNEP413 rejecting only the nonces that are too short
getPayloadHashForNEP413_shortOnly(params) ==
    IF Len(params.nonce) < 32
    THEN Throw(InvalidNonceMessage, <<>>)
    ELSE LET serializedPrefix == encode_u32(PREFIX)
             serializedParams == serialize(Nep413MessageSchema, params)
             allocated == Zeros(Len(serializedPrefix) + Len(serializedParams))
             withPrefix == TypedArraySet(allocated, serializedPrefix, 0)
             serializedPayload ==
                 TypedArraySet(withPrefix, serializedParams, Len(serializedPrefix))
         IN  Return(sha256(serializedPayload), <<"serialize", "serialize", "sha256">>)

\* getPayloadHashForNEP413 writing the params first and the prefix after them
getPayloadHashForNEP413_prefixLast(params) ==
    IF Len(params.nonce) # 32
    THEN Throw(InvalidNonceMessage, <<>>)
    ELSE LET serializedPrefix == encode_u32(PREFIX)
             serializedParams == serialize(Nep413MessageSchema, params)
             allocated == Zeros(Len(serializedPrefix) + Len(serializedParams))
             withParams == TypedArraySet(allocated, serializedParams, 0)
             serializedPayload ==
                 TypedArraySet(withParams, serializedPrefix, Len(serializedParams))
         IN  Return(sha256(serializedPayload), <<"serialize", "serialize", "sha256">>)

\* getPayloadHashForNEP413 without the second set(): the params' bytes stay zero
getPayloadHashForNEP413_paramsNotCopied(params) ==
    IF Len(params.nonce) # 32
    THEN Throw(InvalidNonceMessage, <<>>)
    ELSE LET serializedPrefix == encode_u32(PREFIX)
             serializedParams == serialize(Nep413MessageSchema, params)
             allocated == Zeros(Len(serializedPrefix) + Len(serializedParams))
             serializedPayload == TypedArraySet(allocated, serializedPrefix, 0)
         IN  Return(sha256(serializedPayload), <<"serialize", "serialize", "sha256">>)

getPayloadHashForNEP413(params) ==
    IF Len(params.nonce) # 32
    THEN Throw(InvalidNonceMessage, <<>>)
    ELSE LET serializedPrefix == encode_u32(PREFIX)
             serializedParams == serialize(Nep413MessageSchema, params)
             allocated == Zeros(Len(serializedPrefix) + Len(serializedParams))
             withPrefix == TypedArraySet(allocated, serializedPrefix, 0)
             serializedPayload ==
                 TypedArraySet(withPrefix, serializedParams, Len(serializedPrefix))
         IN  Return(sha256(serializedPayload), <<"serialize", "serialize", "sha256">>)

\* Signer.signNep413Message: hash the params, sign the hash, wrap as SignedMessage
signNep413Message(k, params, accountId) ==
    LET pk == getPublicKey(k)
        hash == getPayloadHashForNEP413(params)
    IN  IF hash.status = "throw"
        THEN Throw(hash.error, pk.invoked \o hash.invoked)
        ELSE LET signed == signMessagePayload(k, hash.value)
             IN  Return([accountId |-> accountId,
                         publicKey |-> pk.value,
                         signature |-> signed.value],
                        pk.invoked \o hash.invoked \o signed.invoked)

Nonces ==
    {Zeros(32), Append(Zeros(31), 1), Zeros(31), Zeros(33), <<>>}

\* absent, present and empty, present and non-empty
CallbackUrls == {<<>>, << <<>> >>, << <<97>> >>}

SignMessageParams ==
    [message : Strings, nonce : Nonces, recipient : AccountIds, callbackUrl : CallbackUrls]

MessageAccountIds == {<<97>>}

-----------------------------------------------------------------------------
(* State machine: one signer, constructed with one key pair; each call of   *)
(* the public interface is one action that records its outcome.             *)

Init ==
    /\ key \in KeyPairs
    /\ outcome = [op |-> "none"]

CallGetPublicKey ==
    /\ outcome' = [op |-> "getPublicKey", result |-> getPublicKey(key)]
    /\ UNCHANGED key

\* a signTransaction that adopts the payload's key object as the held public key
CallSignTransaction_adoptsKey(transaction) ==
    /\ outcome' = [op |-> "signTransaction", input |-> transaction,
                   result |-> signTransaction(key, transaction)]
    /\ key' = [key EXCEPT !.publicKey = transaction.publicKey]

CallSignTransaction(transaction) ==
    /\ outcome' = [op |-> "signTransaction", input |-> transaction,
                   result |-> signTransaction(key, transaction)]
    /\ UNCHANGED key

CallSignDelegateAction(delegateAction) ==
    /\ outcome' = [op |-> "signDelegateAction", input |-> delegateAction,
                   result |-> signDelegateAction(key, delegateAction)]
    /\ UNCHANGED key

CallGetPayloadHashForNEP413(params) ==
    /\ outcome' = [op |-> "getPayloadHashForNEP413", input |-> params,
                   result |-> getPayloadHashForNEP413(params)]
    /\ UNCHANGED key

CallSignNep413Message(params, accountId) ==
    /\ outcome' = [op |-> "signNep413Message", input |-> params,
                   accountId |-> accountId,
                   result |-> signNep413Message(key, params, accountId)]
    /\ UNCHANGED key

Next ==
    \/ CallGetPublicKey
    \/ \E transaction \in Transactions : CallSignTransaction(transaction)
    \/ \E delegateAction \in DelegateActions : CallSignDelegateAction(delegateAction)
    \/ \E params \in SignMessageParams : CallGetPayloadHashForNEP413(params)
    \/ \E params \in SignMessageParams, accountId \in MessageAccountIds :
           CallSignNep413Message(params, accountId)

Spec == Init /\ [][Next]_vars

-----------------------------------------------------------------------------
(* Properties *)

IsSigningCall == outcome.op \in {"signTransaction", "signDelegateAction"}

DeclaredKeyDiffers ==
    PublicKeyToString(outcome.input.publicKey) # PublicKeyToString(key.publicKey)

CryptographicWork == {"encodeTransaction", "encodeDelegateAction", "sha256", "sign"}

\* the bytes a digest was computed from
HashedBytes(digest) == Tail(digest)

\* C1: when the declared public key's string encoding differs from the held
\* key's, signTransaction and signDelegateAction throw the key-mismatch error,
\* having invoked neither the encoder, nor the hash, nor the key pair's sign,
\* and return no digest or signed artifact.
C1_KeyMismatchRejected ==
    (IsSigningCall /\ DeclaredKeyDiffers) =>
        /\ outcome.result.status = "throw"
        /\ outcome.result.error = KeyMismatchMessage
        /\ \A i \in DOMAIN outcome.result.invoked :
               outcome.result.invoked[i] \notin CryptographicWork
        /\ "value" \notin DOMAIN outcome.result

\* a delegate action declaring the held key's bytes under the other algorithm was rejected
C1_Witness ==
    /\ outcome.op = "signDelegateAction"
    /\ outcome.input.publicKey.data = key.publicKey.data
    /\ outcome.input.publicKey.variant # key.publicKey.variant
    /\ outcome.result.status = "throw"

\* C2: getPayloadHashForNEP413 throws the invalid-nonce error for every nonce
\* whose length is not 32, before anything is serialized or hashed, and does
\* not throw it for a nonce of exactly 32 bytes.
C2_NonceLengthValidated ==
    outcome.op = "getPayloadHashForNEP413" =>
        IF Len(outcome.input.nonce) # 32
        THEN /\ outcome.result.status = "throw"
             /\ outcome.result.error = InvalidNonceMessage
             /\ outcome.result.invoked = <<>>
             /\ "value" \notin DOMAIN outcome.result
        ELSE outcome.result.status = "return"

\* a 33-byte nonce was rejected
C2_Witness ==
    /\ outcome.op = "getPayloadHashForNEP413"
    /\ Len(outcome.input.nonce) = 33
    /\ outcome.result.status = "throw"

\* C3: for valid params the hashed bytes are 9D 01 00 80 (2^31 + 413,
\* little-endian: 157 + 256 * 1 = 413 and 256 * 128 = 2^15 in the upper half)
\* followed by the serialized params and nothing else, and the returned
\* value is the hash of that sequence.
C3_PayloadIsPrefixThenParams ==
    (outcome.op = "getPayloadHashForNEP413" /\ Len(outcome.input.nonce) = 32) =>
        LET hashed == HashedBytes(outcome.result.value)
            serializedParams == serialize(Nep413MessageSchema, outcome.input)
        IN  /\ outcome.result.value = sha256(hashed)
            /\ Len(hashed) = 4 + Len(serializedParams)
            /\ SubSeq(hashed, 1, 4) = <<157, 1, 0, 128>>
            /\ SubSeq(hashed, 5, Len(hashed)) = serializedParams

\* params with a non-empty message and a callback url were hashed
C3_Witness ==
    /\ outcome.op = "getPayloadHashForNEP413"
    /\ outcome.result.status = "return"
    /\ Len(outcome.input.message) > 0
    /\ Len(outcome.input.callbackUrl) = 1

\* C4: for a transaction declaring the held key, signTransaction returns the
\* hash of encodeTransaction(transaction) as digest, a signature by the held
\* key over that digest (not over the encoded bytes), and the transaction
\* itself inside the SignedTransaction.
C4_TransactionHashThenSign ==
    (outcome.op = "signTransaction" /\ ~DeclaredKeyDiffers) =>
        /\ outcome.result.status = "return"
        /\ outcome.result.value[1] = sha256(encodeTransaction(outcome.input))
        /\ outcome.result.value[2].signature.data
               = KeyPairSign(key, outcome.result.value[1]).signature
        /\ outcome.result.value[2].signature.data
               # KeyPairSign(key, encodeTransaction(outcome.input)).signature
        /\ outcome.result.value[2].transaction = outcome.input

\* a transaction whose key is another object equal to the held key was signed
C4_Witness ==
    /\ outcome.op = "signTransaction"
    /\ outcome.result.status = "return"
    /\ outcome.input.publicKey.oid # key.publicKey.oid

\* C5: for a delegate action declaring the held key, signDelegateAction signs
\* the hash of encodeDelegateAction(action), never the encoded bytes, returns
\* that same hash as digest, and wraps the action unmodified.
C5_DelegateHashThenSign ==
    (outcome.op = "signDelegateAction" /\ ~DeclaredKeyDiffers) =>
        /\ outcome.result.status = "return"
        /\ outcome.result.value[1] = sha256(encodeDelegateAction(outcome.input))
        /\ outcome.result.value[2].signature.data
               = KeyPairSign(key, outcome.result.value[1]).signature
        /\ outcome.result.value[2].signature.data
               # KeyPairSign(key, encodeDelegateAction(outcome.input)).signature
        /\ outcome.result.value[2].delegateAction = outcome.input

\* a delegate action with a non-empty sender was signed
C5_Witness ==
    /\ outcome.op = "signDelegateAction"
    /\ outcome.result.status = "return"
    /\ Len(outcome.input.senderId) > 0

\* C6: the keyType of the signature signTransaction produces is the algorithm
\* of transaction.publicKey.
C6_TransactionTagFromDeclaredKey ==
    (outcome.op = "signTransaction" /\ outcome.result.status = "return") =>
        outcome.result.value[2].signature.keyType
            = (IF outcome.input.publicKey.variant = "ed25519Key"
               THEN KeyTypeED25519 ELSE KeyTypeSECP256K1)

\* a transaction declaring a secp256k1 key was signed
C6_Witness ==
    /\ outcome.op = "signTransaction"
    /\ outcome.result.status = "return"
    /\ outcome.input.publicKey.variant = "secp256k1Key"

\* C7: the keyType of the signature signDelegateAction produces is the
\* keyType of the signer's own public key.
C7_DelegateTagFromSignerKey ==
    (outcome.op = "signDelegateAction" /\ outcome.result.status = "return") =>
        outcome.result.value[2].signature.keyType = PublicKeyKeyType(key.publicKey)

\* a signer holding a secp256k1 key signed a delegate action
C7_Witness ==
    /\ outcome.op = "signDelegateAction"
    /\ outcome.result.status = "return"
    /\ key.publicKey.variant = "secp256k1Key"

ValidParams == {p \in SignMessageParams : Len(p.nonce) = 32}

\* C8: valid params that differ in message, recipient, nonce or callbackUrl
\* (present or absent) give different hashed bytes, hence a different digest
\* and a different signature.
C8_EveryFieldChangesTheDigest ==
    /\ (outcome.op = "getPayloadHashForNEP413" /\ outcome.result.status = "return") =>
           \A q \in ValidParams :
               q # outcome.input =>
                   /\ HashedBytes(getPayloadHashForNEP413(q).value)
                          # HashedBytes(outcome.result.value)
                   /\ getPayloadHashForNEP413(q).value # outcome.result.value
    /\ (outcome.op = "signNep413Message" /\ outcome.result.status = "return") =>
           \A q \in ValidParams :
               q # outcome.input =>
                   signNep413Message(key, q, outcome.accountId).value.signature
                       # outcome.result.value.signature

\* a message without callback url was signed
C8_Witness ==
    /\ outcome.op = "signNep413Message"
    /\ outcome.result.status = "return"
    /\ outcome.input.callbackUrl = <<>>

C10_TagMatchesBothKeys ==
    (IsSigningCall /\ outcome.result.status = "return") =>
        /\ outcome.result.value[2].signature.keyType
               = PublicKeyKeyType(outcome.input.publicKey)
        /\ outcome.result.value[2].signature.keyType
               = PublicKeyKeyType(key.publicKey)
        /\ outcome.input.publicKey.variant = key.publicKey.variant

\* a signer holding an ed25519 key signed a transaction
C10_Witness ==
    /\ outcome.op = "signTransaction"
    /\ outcome.result.status = "return"
    /\ key.publicKey.variant = "ed25519Key"

====
